---------------------------- MODULE Spec2Model ----------------------------
(***************************************************************************)
(* A model of the C-like lexer of service/lexer.py and service/matcher.py. *)
(* A text is a sequence of one-character strings; offsets are 0-based as   *)
(* in the source, so text[i] of the source is CharAt(text, i) here.        *)
(***************************************************************************)
EXTENDS Integers, Sequences, FiniteSets, TLC

\* ------------------------------------------------------------------ bounds
\* longest text of the exhaustive character families
MaxLen == 4
\* longest text (in words) of the exhaustive word families
MaxWords == 3
\* direct next_token calls made after tokenize() has returned
MaxExtraCalls == 1

\* ------------------------------------------------------- python primitives
Min(a, b) == IF a < b THEN a ELSE b
Max(a, b) == IF a > b THEN a ELSE b

\* text[i]
CharAt(text, i) == text[i + 1]

\* text[a:b] for 0 <= a: python clamps both ends to len(text)
Slice(text, a, b) == SubSeq(text, a + 1, Min(b, Len(text)))

\* text[a:]
SliceFrom(text, a) == SubSeq(text, a + 1, Len(text))

\* text.find(pat, start): lowest index >= start where pat occurs, else -1
Find(text, pat, start) ==
    LET from[i \in Nat] ==
            IF i + Len(pat) > Len(text) THEN -1
            ELSE IF Slice(text, i, i + Len(pat)) = pat THEN i
            ELSE from[i + 1]
    IN from[start]

\* ------------------------------------------------------- character classes
Lower == {"a","b","c","d","e","f","g","h","i","j","k","l","m",
          "n","o","p","q","r","s","t","u","v","w","x","y","z"}
Upper == {"A","B","C","D","E","F","G","H","I","J","K","L","M",
          "N","O","P","Q","R","S","T","U","V","W","X","Y","Z"}

\* the vertical tab, which has no string escape here
VT == "<VT>"

WHITESPACE == {" ", "\t", "\r", "\n", "\f", VT}

is_alpha(c) == c \in Lower \/ c \in Upper

is_digit(c) == c \in {"0","1","2","3","4","5","6","7","8","9"}

is_hex(c) == is_digit(c) \/ c \in {"a","b","c","d","e","f"}
                         \/ c \in {"A","B","C","D","E","F"}

is_oct(c) == c \in {"0","1","2","3","4","5","6","7"}

is_id_start(c) == is_alpha(c) \/ c = "_"

is_id_continue(c) == is_id_start(c) \/ is_digit(c)

\* the predicates handed to match_while, by name
Pred(p, c) ==
    CASE p = "ws"    -> c \in WHITESPACE
      [] p = "digit" -> is_digit(c)
      [] p = "hex"   -> is_hex(c)
      [] p = "oct"   -> is_oct(c)
      [] p = "idc"   -> is_id_continue(c)
      [] p = "b36"   -> is_alpha(c) \/ is_digit(c)

\* ------------------------------------------------------------ span matchers
\* the loop of match_while: the index at which it stops
match_while_end(text, pos, p) ==
    LET loop[i \in Nat] ==
            IF i < Len(text) /\ Pred(p, CharAt(text, i))
            THEN loop[i + 1]
            ELSE i
    IN loop[pos]

match_while(text, pos, p) == match_while_end(text, pos, p) - pos

match_whitespace(text, pos) == match_while(text, pos, "ws")

match_identifier(text, pos) ==
    IF pos >= Len(text) \/ ~is_id_start(CharAt(text, pos)) THEN 0
    ELSE match_while_end(text, pos + 1, "idc") - pos

\* [eE][+-]?[0-9]+
match_exponent(text, pos) ==
    LET n == Len(text) IN
    IF pos < n /\ CharAt(text, pos) \in {"e", "E"}
    THEN LET i1 == pos + 1
             i2 == IF i1 < n /\ CharAt(text, i1) \in {"+", "-"}
                   THEN i1 + 1 ELSE i1
             i3 == i2 + match_while(text, i2, "digit")
         IN IF i3 > i2 THEN i3 - pos ELSE 0
    ELSE 0

match_float(text, pos) ==
    LET n == Len(text)
        i == pos
        \* 1) digits '.' digits* [exp]
        j1 == i + match_while(text, i, "digit")
        s1 == IF j1 > i /\ j1 < n /\ CharAt(text, j1) = "."
              THEN LET k0 == j1 + 1
                       k1 == k0 + match_while(text, k0, "digit")
                       k2 == k1 + match_exponent(text, k1)
                   IN k2 - i
              ELSE 0
        \* 2) '.' digits+ [exp]
        s2 == IF CharAt(text, i) = "." /\ i + 1 < n /\ is_digit(CharAt(text, i + 1))
              THEN LET j0 == i + 1 + match_while(text, i + 1, "digit")
                       j2 == j0 + match_exponent(text, j0)
                   IN j2 - i
              ELSE 0
        \* 3) digits exp
        j3 == i + match_while(text, i, "digit")
        s3 == IF j3 > i
              THEN LET k == j3 + match_exponent(text, j3)
                   IN IF k > j3 THEN k - i ELSE 0
              ELSE 0
    IN IF i >= n THEN 0 ELSE Max(Max(s1, s2), s3)

\* 0[xX][0-9a-fA-F]+
match_hex_int(text, pos) ==
    LET n == Len(text) IN
    IF pos + 2 <= n /\ pos < n /\ CharAt(text, pos) = "0"
       /\ pos + 1 < n /\ CharAt(text, pos + 1) \in {"x", "X"}
    THEN LET start == pos + 2
             j == start + match_while(text, start, "hex")
         IN IF j > start THEN j - pos ELSE 0
    ELSE 0

\* 0[0-7]+
match_oct_int(text, pos) ==
    LET n == Len(text) IN
    IF pos < n /\ CharAt(text, pos) = "0"
    THEN LET j == pos + 1 IN
         IF j < n /\ is_oct(CharAt(text, j))
         THEN j + match_while(text, j, "oct") - pos
         ELSE 0
    ELSE 0

\* 0 | [1-9][0-9]*
match_dec_int(text, pos) ==
    LET n == Len(text) IN
    IF pos >= n \/ ~is_digit(CharAt(text, pos)) THEN 0
    ELSE IF CharAt(text, pos) = "0" THEN 1
    ELSE (pos + 1 + match_while(text, pos + 1, "digit")) - pos

\* the maximal alphanumeric run, when it holds a letter and a digit
match_base36_bare(text, pos) ==
    LET k == match_while(text, pos, "b36")
        run == Slice(text, pos, pos + k)
    IN IF (\E x \in 1..Len(run) : is_alpha(run[x]))
          /\ (\E x \in 1..Len(run) : is_digit(run[x]))
       THEN k ELSE 0

\* scan_literal with a backslash stepped over alone, not as an escape pair
scan_literal_NoEscapePair(text, pos, quote, start) ==
    LET loop[i \in Nat] ==
            IF i < Len(text)
            THEN IF CharAt(text, i) = "\\" THEN loop[i + 1]
                 ELSE IF CharAt(text, i) = quote
                      THEN <<i - pos + 1, quote = "\"", FALSE>>
                 ELSE IF CharAt(text, i) = "\n" /\ quote = "\""
                      THEN <<Max(1, i - pos), quote = "\"", TRUE>>
                 ELSE loop[i + 1]
            ELSE <<Max(1, i - pos), quote = "\"", TRUE>>
    IN loop[start]

\* the scanning loop of match_string_or_char, entered at index start
scan_literal(text, pos, quote, start) ==
    LET loop[i \in Nat] ==
            IF i < Len(text)
            THEN IF CharAt(text, i) = "\\" THEN loop[i + 2]
                 ELSE IF CharAt(text, i) = quote
                      THEN <<i - pos + 1, quote = "\"", FALSE>>
                 ELSE IF CharAt(text, i) = "\n" /\ quote = "\""
                      THEN <<Max(1, i - pos), quote = "\"", TRUE>>
                 ELSE loop[i + 1]
            ELSE <<Max(1, i - pos), quote = "\"", TRUE>>
    IN loop[start]

\* (len, is_string, is_error)
match_string_or_char(text, pos) ==
    IF pos >= Len(text) \/ CharAt(text, pos) \notin {"'", "\""}
    THEN <<0, FALSE, FALSE>>
    ELSE scan_literal(text, pos, CharAt(text, pos), pos + 1)

\* ------------------------------------------------------------------ tokens
TokenTypes == {"ID", "RW", "OP", "DL", "FLOAT", "NUM10", "NUM8", "NUM16",
               "NUM36", "CS_STR", "CS_CHAR", "ERROR", "EOF"}

Token(type, lexeme, line, col) ==
    [type |-> type, lexeme |-> lexeme, line |-> line, column |-> col]

\* prev_token = None
None == [type |-> "None", lexeme |-> <<>>, line |-> 0, column |-> 0]

\* the fixed lexeme tables
KEYWORDS == { <<"i","n","t","3","6">>, <<"r","e","t","u","r","n">> }

OPERATORS == { <<"=">>, <<"+">>, <<"-">>, <<"*">>, <<"/">>, <<"%">>,
               <<"&">>, <<"|">>, <<"^">>, <<"<">>, <<">">>, <<"?">>, <<":">>,
               <<"=","=">>, <<"!","=">>, <<"<","=">>, <<">","=">>,
               <<"&","&">>, <<"|","|">> }

DELIMITERS == { <<"(">>, <<")">>, <<"{">>, <<"}">>, <<"[">>, <<"]">>,
                <<",">>, <<";">> }

\* ---------------------------------------------------------------- the trie
\* Trie.add: a node is the path of characters that leads to it
Prefixes(s) == { SubSeq(s, 1, k) : k \in 0..Len(s) }

TrieNodes == UNION { Prefixes(s) : s \in OPERATORS \cup DELIMITERS }

\* the operators are added first, the delimiters after them
TrieTag(node) ==
    IF node \in DELIMITERS THEN "DL"
    ELSE IF node \in OPERATORS THEN "OP"
    ELSE "None"

\* match_longest stopping at the first node that carries a tag
match_longest_FirstTerminal(text, pos) ==
    LET walk[i \in Nat] ==
            IF i < Len(text) /\ Slice(text, pos, i + 1) \in TrieNodes
            THEN IF TrieTag(Slice(text, pos, i + 1)) # "None"
                 THEN <<Slice(text, pos, i + 1), TrieTag(Slice(text, pos, i + 1))>>
                 ELSE walk[i + 1]
            ELSE <<<<>>, "None">>
    IN walk[pos]

\* Trie.match_longest: (lexeme, tag), or (<<>>, "None") for (None, None)
match_longest(text, pos) ==
    LET walk[i \in Nat, last_tag \in {"None", "OP", "DL"}, last_i \in Nat] ==
            IF i < Len(text) /\ Slice(text, pos, i + 1) \in TrieNodes
            THEN IF TrieTag(Slice(text, pos, i + 1)) # "None"
                 THEN walk[i + 1, TrieTag(Slice(text, pos, i + 1)), i + 1]
                 ELSE walk[i + 1, last_tag, last_i]
            ELSE IF last_tag = "None" THEN <<<<>>, "None">>
            ELSE <<Slice(text, pos, last_i), last_tag>>
    IN walk[pos, "None", pos]

\* ---------------------------------------------------------------- the cursor
Cursor(pos, line, col) == [pos |-> pos, line |-> line, col |-> col]

\* _advance with the offset counted only in the branch of the other characters
Advance_PosSkipsNewlines(c, s) ==
    LET loop[k \in Nat, ln \in Nat, cl \in Nat, p \in Nat] ==
            IF k > Len(s) THEN Cursor(p, ln, cl)
            ELSE IF s[k] = "\n" THEN loop[k + 1, ln + 1, 1, p]
            ELSE loop[k + 1, ln, cl + 1, p + 1]
    IN loop[1, c.line, c.col, c.pos]

\* _advance with the column not reset at a newline
Advance_ColNotReset(c, s) ==
    LET loop[k \in Nat, ln \in Nat, cl \in Nat] ==
            IF k > Len(s) THEN Cursor(c.pos + Len(s), ln, cl)
            ELSE IF s[k] = "\n" THEN loop[k + 1, ln + 1, cl + 1]
            ELSE loop[k + 1, ln, cl + 1]
    IN loop[1, c.line, c.col]

\* _advance(s)
Advance(c, s) ==
    LET loop[k \in Nat, ln \in Nat, cl \in Nat] ==
            IF k > Len(s) THEN Cursor(c.pos + Len(s), ln, cl)
            ELSE IF s[k] = "\n" THEN loop[k + 1, ln + 1, 1]
            ELSE loop[k + 1, ln, cl + 1]
    IN loop[1, c.line, c.col]

Peek(text, c, k) == Slice(text, c.pos, c.pos + k)

\* -------------------------------------------------------------- noise skipping
\* what one skipper did: the cursor after it, whether it skipped, the strings
\* it handed to _advance, and the token it returned (None when none)
Skipped(c, hit, spans, tok) ==
    [c |-> c, hit |-> hit, spans |-> spans, tok |-> tok]

skip_ws(text, c) ==
    LET n == match_whitespace(text, c.pos)
        s == Slice(text, c.pos, c.pos + n)
    IN IF n > 0 THEN Skipped(Advance(c, s), TRUE, <<s>>, None)
       ELSE Skipped(c, FALSE, <<>>, None)

at_line_start(text, c) ==
    LET back[i \in Int] ==
            IF i >= 0 /\ CharAt(text, i) \in {" ", "\t"}
            THEN back[i - 1]
            ELSE i
    IN back[c.pos - 1] < 0 \/ CharAt(text, back[c.pos - 1]) = "\n"

\* the loop of _skip_pp_line without the continuation test
pp_line_end_NoContinuation(text, pos) ==
    LET loop[j \in Nat] ==
            IF j < Len(text)
            THEN IF CharAt(text, j) = "\n" THEN j ELSE loop[j + 1]
            ELSE j
    IN loop[pos]

\* the loop of _skip_pp_line: the index j at which it stops
pp_line_end(text, pos) ==
    LET loop[j \in Nat] ==
            IF j < Len(text)
            THEN IF CharAt(text, j) = "\\" /\ j + 1 < Len(text)
                    /\ CharAt(text, j + 1) = "\n"
                 THEN loop[j + 2]
                 ELSE IF CharAt(text, j) = "\n" THEN j
                 ELSE loop[j + 1]
            ELSE j
    IN loop[pos]

skip_pp_line(text, c) ==
    IF Peek(text, c, 1) = <<"#">> /\ at_line_start(text, c)
    THEN LET s == Slice(text, c.pos, pp_line_end(text, c.pos))
         IN Skipped(Advance(c, s), TRUE, <<s>>, None)
    ELSE Skipped(c, FALSE, <<>>, None)

\* _skip_comments with the ERROR token built after the cursor has advanced
skip_comments_TokenAfterAdvance(text, c) ==
    IF Peek(text, c, 2) = <<"/", "*">>
    THEN LET end == Find(text, <<"*", "/">>, c.pos + 2) IN
         IF end = -1
         THEN LET lex == SliceFrom(text, c.pos)
              IN Skipped(Advance(c, lex), FALSE, <<lex>>,
                         Token("ERROR", lex, Advance(c, lex).line,
                               Advance(c, lex).col))
         ELSE LET s == Slice(text, c.pos, end + 2)
              IN Skipped(Advance(c, s), TRUE, <<s>>, None)
    ELSE IF Peek(text, c, 2) = <<"/", "/">>
    THEN LET j == Find(text, <<"\n">>, c.pos)
             s == IF j = -1 THEN SliceFrom(text, c.pos)
                  ELSE Slice(text, c.pos, j)
         IN Skipped(Advance(c, s), TRUE, <<s>>, None)
    ELSE Skipped(c, FALSE, <<>>, None)

skip_comments(text, c) ==
    IF Peek(text, c, 2) = <<"/", "*">>
    THEN LET end == Find(text, <<"*", "/">>, c.pos + 2) IN
         IF end = -1
         THEN LET lex == SliceFrom(text, c.pos)
              IN Skipped(Advance(c, lex), FALSE, <<lex>>,
                         Token("ERROR", lex, c.line, c.col))
         ELSE LET s == Slice(text, c.pos, end + 2)
              IN Skipped(Advance(c, s), TRUE, <<s>>, None)
    ELSE IF Peek(text, c, 2) = <<"/", "/">>
    THEN LET j == Find(text, <<"\n">>, c.pos)
             s == IF j = -1 THEN SliceFrom(text, c.pos)
                  ELSE Slice(text, c.pos, j)
         IN Skipped(Advance(c, s), TRUE, <<s>>, None)
    ELSE Skipped(c, FALSE, <<>>, None)

\* ------------------------------------------------------ candidate selection
\* the candidates with the hex candidate appended before the base-36 one
Candidates_HexFirst(text, start) ==
    LET Lf   == match_float(text, start)
        L36b == match_base36_bare(text, start)
        L16  == match_hex_int(text, start)
        L8   == match_oct_int(text, start)
        L10  == match_dec_int(text, start)
        op   == match_longest(text, start)
        Lid  == match_identifier(text, start)
    IN (IF Lf > 0 THEN << <<Lf, "FLOAT">> >> ELSE <<>>)
       \o (IF L16 > 0 THEN << <<L16, "NUM16">> >> ELSE <<>>)
       \o (IF L36b > 0 THEN << <<L36b, "NUM36">> >> ELSE <<>>)
       \o (IF L8 > 0 THEN << <<L8, "NUM8">> >> ELSE <<>>)
       \o (IF L10 > 0 THEN << <<L10, "NUM10">> >> ELSE <<>>)
       \o (IF op[2] # "None"
           THEN << <<Len(op[1]), IF op[2] = "OP" THEN "OP" ELSE "DL">> >>
           ELSE <<>>)
       \o (IF Lid > 0 THEN << <<Lid, "None">> >> ELSE <<>>)

\* the candidates with the base-36 candidate appended before the float one
Candidates_Base36First(text, start) ==
    LET Lf   == match_float(text, start)
        L36b == match_base36_bare(text, start)
        L16  == match_hex_int(text, start)
        L8   == match_oct_int(text, start)
        L10  == match_dec_int(text, start)
        op   == match_longest(text, start)
        Lid  == match_identifier(text, start)
    IN (IF L36b > 0 THEN << <<L36b, "NUM36">> >> ELSE <<>>)
       \o (IF Lf > 0 THEN << <<Lf, "FLOAT">> >> ELSE <<>>)
       \o (IF L16 > 0 THEN << <<L16, "NUM16">> >> ELSE <<>>)
       \o (IF L8 > 0 THEN << <<L8, "NUM8">> >> ELSE <<>>)
       \o (IF L10 > 0 THEN << <<L10, "NUM10">> >> ELSE <<>>)
       \o (IF op[2] # "None"
           THEN << <<Len(op[1]), IF op[2] = "OP" THEN "OP" ELSE "DL">> >>
           ELSE <<>>)
       \o (IF Lid > 0 THEN << <<Lid, "None">> >> ELSE <<>>)

\* the candidates in the order next_token appends them; an identifier
\* candidate carries "None" until the keyword lookup
Candidates(text, start) ==
    LET Lf   == match_float(text, start)
        L36b == match_base36_bare(text, start)
        L16  == match_hex_int(text, start)
        L8   == match_oct_int(text, start)
        L10  == match_dec_int(text, start)
        op   == match_longest(text, start)
        Lid  == match_identifier(text, start)
    IN (IF Lf > 0 THEN << <<Lf, "FLOAT">> >> ELSE <<>>)
       \o (IF L36b > 0 THEN << <<L36b, "NUM36">> >> ELSE <<>>)
       \o (IF L16 > 0 THEN << <<L16, "NUM16">> >> ELSE <<>>)
       \o (IF L8 > 0 THEN << <<L8, "NUM8">> >> ELSE <<>>)
       \o (IF L10 > 0 THEN << <<L10, "NUM10">> >> ELSE <<>>)
       \o (IF op[2] # "None"
           THEN << <<Len(op[1]), IF op[2] = "OP" THEN "OP" ELSE "DL">> >>
           ELSE <<>>)
       \o (IF Lid > 0 THEN << <<Lid, "None">> >> ELSE <<>>)

NumericTypes == {"FLOAT", "NUM16", "NUM8", "NUM10", "NUM36"}

\* pri with the key's components swapped: (p, l)
pri_PriorityFirst(entry) ==
    << IF entry[2] \in NumericTypes THEN 3
       ELSE IF entry[2] \in {"OP", "DL"} THEN 2
       ELSE 1,
       entry[1] >>

\* pri with the ranks reversed: identifier 3, operator or delimiter 2,
\* numeric 1
pri_IdentifierFirst(entry) ==
    << entry[1],
       IF entry[2] \in NumericTypes THEN 1
       ELSE IF entry[2] \in {"OP", "DL"} THEN 2
       ELSE 3 >>

\* pri(entry) = (l, p)
pri(entry) ==
    << entry[1],
       IF entry[2] \in NumericTypes THEN 3
       ELSE IF entry[2] \in {"OP", "DL"} THEN 2
       ELSE 1 >>

\* tuple comparison a < b
KeyLess(a, b) == a[1] < b[1] \/ (a[1] = b[1] /\ a[2] < b[2])

\* max(candidates, key=pri): the first candidate of the greatest key
max_by_pri(cands) ==
    LET i == CHOOSE k \in 1..Len(cands) :
                /\ \A j \in 1..Len(cands) : ~KeyLess(pri(cands[k]), pri(cands[j]))
                /\ \A j \in 1..(k - 1) : KeyLess(pri(cands[j]), pri(cands[k]))
    IN cands[i]

\* --------------------------------------------------- declaration context
Flags(d, e, b) == [in_decl |-> d, expect_ident |-> e, decl_is_int36 |-> b]

ExprDelims == { <<"(">>, <<",">>, <<"{">>, <<"[">>, <<";">> }

ExprOps == { <<"=">>, <<"+">>, <<"-">>, <<"*">>, <<"/">>, <<"%">>, <<"&">>,
             <<"|">>, <<"^">>, <<"=","=">>, <<"!","=">>, <<"<","=">>,
             <<">","=">>, <<"<">>, <<">">>, <<"&","&">>, <<"|","|">>,
             <<"?">>, <<":">> }

\* _in_expr_context with `[` left out of the delimiters
in_expr_context_NoBracket(t, f) ==
    \/ t = None
    \/ t.type = "DL" /\ t.lexeme \in ExprDelims \ { <<"[">> }
    \/ t.type = "OP" /\ t.lexeme \in ExprOps
    \/ t.type = "RW" /\ t.lexeme = <<"r","e","t","u","r","n">>
    \/ f.in_decl /\ t.type = "OP" /\ t.lexeme = <<"=">>

in_expr_context(t, f) ==
    \/ t = None
    \/ t.type = "DL" /\ t.lexeme \in ExprDelims
    \/ t.type = "OP" /\ t.lexeme \in ExprOps
    \/ t.type = "RW" /\ t.lexeme = <<"r","e","t","u","r","n">>
    \/ f.in_decl /\ t.type = "OP" /\ t.lexeme = <<"=">>

\* classify without the keyword override
classify_NoKeyword(lex, ttype, f, prev) ==
    LET has_alpha  == \E k \in 1..Len(lex) : is_alpha(lex[k])
        has_digit  == \E k \in 1..Len(lex) : is_digit(lex[k])
        is_all_b36 == \A k \in 1..Len(lex) : is_digit(lex[k]) \/ is_alpha(lex[k])
        t0 == IF ttype = "None" THEN "ID" ELSE ttype
        t1 == IF t0 = "ID" /\ has_alpha /\ has_digit /\ is_all_b36
                 /\ ~f.expect_ident /\ in_expr_context(prev, f)
              THEN "NUM36"
              ELSE t0
    IN IF f.in_decl /\ f.decl_is_int36 /\ ~f.expect_ident
          /\ in_expr_context(prev, f) /\ t1 \in {"NUM10", "NUM8", "NUM16"}
       THEN "NUM36"
       ELSE t1

\* classify without the int36 declaration override
classify_NoDeclOverride(lex, ttype, f, prev) ==
    LET has_alpha  == \E k \in 1..Len(lex) : is_alpha(lex[k])
        has_digit  == \E k \in 1..Len(lex) : is_digit(lex[k])
        is_all_b36 == \A k \in 1..Len(lex) : is_digit(lex[k]) \/ is_alpha(lex[k])
        t0 == IF ttype = "None" THEN "ID" ELSE ttype
    IN IF lex \in KEYWORDS THEN "RW"
       ELSE IF t0 = "ID" /\ has_alpha /\ has_digit /\ is_all_b36
               /\ ~f.expect_ident /\ in_expr_context(prev, f)
            THEN "NUM36"
       ELSE t0

\* the category of the selected lexeme: keyword override, base-36
\* reclassification of an identifier, int36 declaration override
classify(lex, ttype, f, prev) ==
    LET has_alpha  == \E k \in 1..Len(lex) : is_alpha(lex[k])
        has_digit  == \E k \in 1..Len(lex) : is_digit(lex[k])
        is_all_b36 == \A k \in 1..Len(lex) : is_digit(lex[k]) \/ is_alpha(lex[k])
        t0 == IF ttype = "None" THEN "ID" ELSE ttype
        t1 == IF lex \in KEYWORDS THEN "RW"
              ELSE IF t0 = "ID" /\ has_alpha /\ has_digit /\ is_all_b36
                      /\ ~f.expect_ident /\ in_expr_context(prev, f)
                   THEN "NUM36"
              ELSE t0
    IN IF f.in_decl /\ f.decl_is_int36 /\ ~f.expect_ident
          /\ in_expr_context(prev, f) /\ t1 \in {"NUM10", "NUM8", "NUM16"}
       THEN "NUM36"
       ELSE t1

\* update_context with a `,` that does not bring back the expected name
update_context_NoCommaReset(tok, f) ==
    IF tok.type = "RW" /\ tok.lexeme = <<"i","n","t","3","6">>
    THEN Flags(TRUE, TRUE, TRUE)
    ELSE IF tok.type = "DL" /\ tok.lexeme = <<";">>
    THEN Flags(FALSE, FALSE, FALSE)
    ELSE IF f.in_decl
    THEN Flags(f.in_decl,
               IF f.expect_ident /\ tok.type = "ID" THEN FALSE
               ELSE f.expect_ident,
               f.decl_is_int36)
    ELSE f

\* update_context with a `;` that leaves the declaration type set
update_context_SemicolonKeepsType(tok, f) ==
    IF tok.type = "RW" /\ tok.lexeme = <<"i","n","t","3","6">>
    THEN Flags(TRUE, TRUE, TRUE)
    ELSE IF tok.type = "DL" /\ tok.lexeme = <<";">>
    THEN Flags(FALSE, FALSE, f.decl_is_int36)
    ELSE IF f.in_decl
    THEN LET e1 == IF f.expect_ident /\ tok.type = "ID" THEN FALSE
                   ELSE f.expect_ident
             e2 == IF tok.type = "DL" /\ tok.lexeme = <<",">> THEN TRUE ELSE e1
         IN Flags(f.in_decl, e2, f.decl_is_int36)
    ELSE f

\* the flags after a token of candidate selection
update_context(tok, f) ==
    IF tok.type = "RW" /\ tok.lexeme = <<"i","n","t","3","6">>
    THEN Flags(TRUE, TRUE, TRUE)
    ELSE IF tok.type = "DL" /\ tok.lexeme = <<";">>
    THEN Flags(FALSE, FALSE, FALSE)
    ELSE IF f.in_decl
    THEN LET e1 == IF f.expect_ident /\ tok.type = "ID" THEN FALSE
                   ELSE f.expect_ident
             e2 == IF tok.type = "DL" /\ tok.lexeme = <<",">> THEN TRUE ELSE e1
         IN Flags(f.in_decl, e2, f.decl_is_int36)
    ELSE f

\* --------------------------------------------------------- token emitters
\* what an emitting path of next_token did: the token, the cursor, the flags
\* and the lookback token after it, and the string handed to _advance
Emitted(tok, c, f, prev, span) ==
    [tok |-> tok, c |-> c, f |-> f, prev |-> prev, span |-> span]

\* _try_string_or_char, for a match m of positive length
try_string_or_char(text, c, f, m) ==
    LET lex == Slice(text, c.pos, c.pos + m[1])
        tok == Token(IF m[3] THEN "ERROR"
                     ELSE IF m[2] THEN "CS_STR" ELSE "CS_CHAR",
                     lex, c.line, c.col)
    IN Emitted(tok, Advance(c, lex), f, tok, lex)

\* the ERROR token of one character, the cursor left where it was
emit_bad_char_NoAdvance(text, c, f) ==
    LET bad == <<CharAt(text, c.pos)>>
        tok == Token("ERROR", bad, c.line, c.col)
    IN Emitted(tok, c, f, tok, <<>>)

\* the ERROR token of one character, the declaration flags cleared
emit_bad_char_ClearsFlags(text, c, f) ==
    LET bad == <<CharAt(text, c.pos)>>
        tok == Token("ERROR", bad, c.line, c.col)
    IN Emitted(tok, Advance(c, bad), Flags(FALSE, FALSE, FALSE), tok, bad)

\* no candidate: an ERROR token of one character
emit_bad_char(text, c, f) ==
    LET bad == <<CharAt(text, c.pos)>>
        tok == Token("ERROR", bad, c.line, c.col)
    IN Emitted(tok, Advance(c, bad), f, tok, bad)

\* the selected candidate best = (L, ttype): classification, token,
\* advance and context update
emit_selected(text, c, f, prev, best) ==
    LET lex == Slice(text, c.pos, c.pos + best[1])
        tok == Token(classify(lex, best[2], f, prev), lex, c.line, c.col)
    IN Emitted(tok, Advance(c, lex), update_context(tok, f), tok, lex)

\* the emitting path next_token takes after the noise loop
scan_path(text, c, m, cands) ==
    IF c.pos >= Len(text) THEN "eof"
    ELSE IF m[1] # 0 THEN "literal"
    ELSE IF cands = <<>> THEN "no_candidate"
    ELSE "selected"

\* ------------------------------------------------------------- input texts
\* every sequence over the characters cs of length at most k
SeqsUpTo(cs, k) == UNION { [1..m -> cs] : m \in 0..k }

RECURSIVE Flatten(_)
Flatten(ws) == IF ws = <<>> THEN <<>> ELSE Head(ws) \o Flatten(Tail(ws))

\* every concatenation of at most k of the words ws
WordsUpTo(ws, k) == { Flatten(w) : w \in SeqsUpTo(ws, k) }

LiteralChars == {"\"", "'", "\\", "\n", "a"}
CommentChars == {"/", "*", "\n", " ", "a"}
DirectiveChars == {"#", "\\", "\n", "\t", "a"}
NumberChars == {"0", "1", "x", "e", ".", "+"}
SymbolChars == {"=", "!", "@", "_", "b", "2"}

CharFamilies ==
    {LiteralChars, CommentChars, DirectiveChars, NumberChars, SymbolChars}

DeclWords ==
    { <<"i","n","t","3","6"," ">>,
      <<"a","1">>,
      <<"=">>,
      <<"7">>,
      <<",">>,
      <<";">> }

ExprWords ==
    { <<"i","n","t","3","6"," ","a">>,
      <<"=">>,
      <<"1",".","5">>,
      <<"0","x","1","F">>,
      <<"0","1","7">>,
      <<"[">>,
      <<"]">>,
      <<"r","e","t","u","r","n"," ">> }

WordFamilies == {DeclWords, ExprWords}

Samples ==
    { <<"a","b","c","1","2","3">>,
      <<"a","b","c","1","2","3"," ","="," ","1",";">>,
      <<"a"," ","="," ","a","b","c","1","2","3",";">>,
      <<"i","n","t","3","6"," ","x"," ","="," ","1","0",";">>,
      <<"i","n","t","3","6"," ","x"," ","="," ","1",".","5",";">>,
      <<"/","*"," ","n","e","v","e","r"," ","c","l","o","s","e","s">>,
      <<"\"","a","b","c">>,
      <<"=","=">>,
      <<"i","n","t","3","6"," ","x","1",","," ","y","2"," ","="," ","0","x","1","F",";">>,
      <<"a"," ","/","*","\n","*","/"," ","b">>,
      <<"#","a","\\","\n","b","\n","\t","c">>,
      <<"x"," ","="," ","1","e","5",";">>,
      <<"a","[","b","2","]","=","c","3">>,
      <<"r","e","t","u","r","n"," ","a","1",";">>,
      <<"'","a","\\">>,
      <<"i","n","t","3","6"," ","a"," ","="," ","0","1","7",","," ","b"," ","="," ","z","9",";">>,
      <<"x"," ","="," ","0","8"," ","+"," ","0","1","9",";">>,
      <<"a"," ","="," ","b","1",";"," ","/","/"," ","c","\n","/","*"," ","d"," ","*","/","\n","#"," ","e">>,
      <<"i","n","t","3","6"," ","@"," ","x",";">>,
      <<"a","[","1","e","5","]","c","3">>,
      <<"i","n","t","3","6"," ","a",";"," ","i","n","t","3","6"," ","b">> }

Texts ==
    Samples
    \cup UNION { SeqsUpTo(cs, MaxLen) : cs \in CharFamilies }
    \cup UNION { WordsUpTo(ws, MaxWords) : ws \in WordFamilies }

\* ------------------------------------------------------------------- state
VARIABLES
    text,            \* self.text
    pos, line, col,  \* the cursor
    in_decl, expect_ident, decl_is_int36, prev_token,
    pc,              \* where control is: loop, noise, scan, ret, done
    caller,          \* who called next_token: tokenize or direct
    ret,             \* the token next_token returned
    out,             \* tokenize's list
    extra,           \* direct calls made after tokenize returned
    spans,           \* history: the strings handed to _advance, in order
    rets,            \* history: the tokens next_token returned, in order
    callStart,       \* history: the offset at the start of the current call
    passes,          \* history: passes of the noise loop made in the current call
    tokStart,        \* history: the offset at which ret was constructed
    path,            \* history: the path of next_token that produced ret
    pre              \* history: flags and lookback token when ret was chosen

vars == <<text, pos, line, col, in_decl, expect_ident, decl_is_int36,
          prev_token, pc, caller, ret, out, extra, spans, rets, callStart,
          passes, tokStart, path, pre>>

cursor == Cursor(pos, line, col)
flags == Flags(in_decl, expect_ident, decl_is_int36)

PreState(f, prev) == [f |-> f, prev |-> prev]

\* Lexer(text), and tokenize() entered with an empty list
Init ==
    /\ text \in Texts
    /\ pos = 0 /\ line = 1 /\ col = 1
    /\ in_decl = FALSE /\ expect_ident = FALSE /\ decl_is_int36 = FALSE
    /\ prev_token = None
    /\ pc = "loop" /\ caller = "tokenize"
    /\ ret = None /\ out = <<>> /\ extra = 0
    /\ spans = <<>> /\ rets = <<>>
    /\ callStart = 0 /\ passes = 0 /\ tokStart = 0 /\ path = "none"
    /\ pre = PreState(Flags(FALSE, FALSE, FALSE), None)

\* tokenize calls next_token
TokenizeCall ==
    /\ pc = "loop"
    /\ pc' = "noise" /\ caller' = "tokenize" /\ callStart' = pos /\ passes' = 0
    /\ UNCHANGED <<text, pos, line, col, in_decl, expect_ident, decl_is_int36,
                   prev_token, ret, out, extra, spans, rets, tokStart, path, pre>>

\* one pass of the noise loop of next_token: whitespace, comments, directive
NoiseLoop ==
    /\ pc = "noise"
    /\ \E w \in {skip_ws(text, cursor)} :
       \E cm \in {skip_comments(text, w.c)} :
       \E pp \in {skip_pp_line(text, cm.c)} :
          IF cm.tok # None
          THEN /\ pos' = cm.c.pos /\ line' = cm.c.line /\ col' = cm.c.col
               /\ spans' = spans \o w.spans \o cm.spans
               /\ ret' = cm.tok /\ rets' = Append(rets, cm.tok)
               /\ tokStart' = w.c.pos
               /\ path' = "comment_error" /\ pre' = PreState(flags, prev_token)
               /\ pc' = "ret"
          ELSE /\ pos' = pp.c.pos /\ line' = pp.c.line /\ col' = pp.c.col
               /\ spans' = spans \o w.spans \o cm.spans \o pp.spans
               /\ pc' = IF w.hit \/ cm.hit \/ pp.hit THEN "noise" ELSE "scan"
               /\ UNCHANGED <<ret, rets, tokStart, path, pre>>
    /\ passes' = passes + 1
    /\ UNCHANGED <<text, in_decl, expect_ident, decl_is_int36, prev_token,
                   caller, out, extra, callStart>>

\* next_token after the noise loop: EOF, a literal, an unrecognized
\* character, or candidate selection
Scan ==
    /\ pc = "scan"
    /\ \E m \in {match_string_or_char(text, pos)} :
       \E cands \in {Candidates(text, pos)} :
       \E p \in {scan_path(text, cursor, m, cands)} :
       \E r \in { CASE p = "eof" ->
                         Emitted(Token("EOF", <<>>, line, col), cursor, flags,
                                 prev_token, <<>>)
                    [] p = "literal" ->
                         try_string_or_char(text, cursor, flags, m)
                    [] p = "no_candidate" ->
                         emit_bad_char(text, cursor, flags)
                    [] p = "selected" ->
                         emit_selected(text, cursor, flags, prev_token,
                                       max_by_pri(cands)) } :
          /\ pos' = r.c.pos /\ line' = r.c.line /\ col' = r.c.col
          /\ in_decl' = r.f.in_decl /\ expect_ident' = r.f.expect_ident
          /\ decl_is_int36' = r.f.decl_is_int36
          /\ prev_token' = r.prev
          /\ ret' = r.tok /\ rets' = Append(rets, r.tok)
          /\ spans' = IF p = "eof" THEN spans ELSE Append(spans, r.span)
          /\ tokStart' = pos /\ path' = p
          /\ pre' = PreState(flags, prev_token)
    /\ pc' = "ret"
    /\ UNCHANGED <<text, caller, out, extra, callStart, passes>>

\* tokenize appending the token before it tests for EOF
TokenizeRecv_KeepsEof ==
    /\ pc = "ret" /\ caller = "tokenize"
    /\ out' = Append(out, ret)
    /\ pc' = IF ret.type = "EOF" THEN "done" ELSE "loop"
    /\ UNCHANGED <<text, pos, line, col, in_decl, expect_ident, decl_is_int36,
                   prev_token, caller, ret, extra, spans, rets, callStart,
                   passes, tokStart, path, pre>>

\* tokenize receives the token: break on EOF, else append and loop
TokenizeRecv ==
    /\ pc = "ret" /\ caller = "tokenize"
    /\ IF ret.type = "EOF"
       THEN pc' = "done" /\ out' = out
       ELSE pc' = "loop" /\ out' = Append(out, ret)
    /\ UNCHANGED <<text, pos, line, col, in_decl, expect_ident, decl_is_int36,
                   prev_token, caller, ret, extra, spans, rets, callStart,
                   passes, tokStart, path, pre>>

\* next_token called directly on the lexer after tokenize has returned
DirectCall ==
    /\ pc = "done" /\ extra < MaxExtraCalls
    /\ pc' = "noise" /\ caller' = "direct" /\ extra' = extra + 1
    /\ callStart' = pos /\ passes' = 0
    /\ UNCHANGED <<text, pos, line, col, in_decl, expect_ident, decl_is_int36,
                   prev_token, ret, out, spans, rets, tokStart, path, pre>>

\* the direct caller receives the token
DirectRecv ==
    /\ pc = "ret" /\ caller = "direct"
    /\ pc' = "done"
    /\ UNCHANGED <<text, pos, line, col, in_decl, expect_ident, decl_is_int36,
                   prev_token, caller, ret, out, extra, spans, rets, callStart,
                   passes, tokStart, path, pre>>

Next ==
    \/ TokenizeCall
    \/ NoiseLoop
    \/ Scan
    \/ TokenizeRecv
    \/ DirectCall
    \/ DirectRecv

Spec == Init /\ [][Next]_vars

\* the interpreter runs every step it reaches: no step is postponed for ever
FairSpec == Spec /\ WF_vars(Next)

\* ------------------------------------------------------------------ claims
\* the offset reached after the first k strings handed to _advance
SpanEnd(k) == Len(Flatten(SubSeq(spans, 1, k)))

EofReturned == \E k \in 1..Len(rets) : rets[k].type = "EOF"

\* C1 (coverage): each consumed span is text[old_offset:new_offset], the
\* spans in consumption order tile text[0:offset] with no gap and no overlap,
\* the offset never exceeds len(text), it never decreases, and once EOF has
\* been returned the spans concatenated are the whole input.
C1_CoverageState ==
    /\ pos >= 0 /\ pos <= Len(text)
    /\ SpanEnd(Len(spans)) = pos
    /\ \A k \in 1..Len(spans) :
          spans[k] = Slice(text, SpanEnd(k - 1), SpanEnd(k))
    /\ EofReturned => Flatten(spans) = text

C1_Coverage == [](C1_CoverageState) /\ [][pos' >= pos]_vars

\* an input with skipped noise, a token and an error span, consumed to EOF
C1_Witness ==
    /\ pc = "done" /\ text # <<>>
    /\ Len(spans) > Len(out) + 1
    /\ \E k \in 1..Len(out) : out[k].type = "ERROR"
    /\ \E k \in 1..Len(out) : out[k].type # "ERROR"
    /\ \E k \in 1..Len(spans) : \E x \in 1..Len(spans[k]) : spans[k][x] = "\n"

\* C2 (progress): a call of next_token entered before end-of-input returns
\* with the offset strictly greater than at entry, whichever path it took,
\* and a returned token other than EOF has a non-empty lexeme.
C2_Progress ==
    pc = "ret" =>
        /\ callStart < Len(text) => pos > callStart
        /\ ret.type # "EOF" => ret.lexeme # <<>>

\* a call that only skipped noise and returned EOF, after an unrecognized
\* character and a literal were returned by earlier calls
C2_Witness ==
    /\ pc = "ret" /\ callStart < Len(text) /\ ret.type = "EOF"
    /\ \E k \in 1..Len(out) : out[k].type = "ERROR" /\ Len(out[k].lexeme) = 1
    /\ \E k \in 1..Len(out) : out[k].type \in {"CS_STR", "CS_CHAR"}

\* the tokens returned before the first EOF
RECURSIVE BeforeEof(_)
BeforeEof(ts) ==
    IF ts = <<>> \/ Head(ts).type = "EOF" THEN <<>>
    ELSE <<Head(ts)>> \o BeforeEof(Tail(ts))

\* C3 (termination): on every input tokenize returns; until then it is never
\* stuck, the noise loop of one call makes at most one pass per character it
\* consumes plus a last one, and tokenize makes at most one call per
\* character plus the call that returns EOF; the list it returns is the
\* tokens returned before the first EOF, the EOF token left out.
C3_TerminationState ==
    /\ pc # "done" => ENABLED Next
    /\ passes <= (pos - callStart) + 1
    /\ caller = "tokenize" => Len(rets) <= pos + 1
    /\ pc = "done" =>
          /\ EofReturned
          /\ out = BeforeEof(rets)
          /\ \A k \in 1..Len(out) : out[k].type # "EOF"

C3_Termination == [](C3_TerminationState) /\ <>(pc = "done")

\* tokenize has returned a list of several tokens after a call whose noise
\* loop made several passes
C3_Witness ==
    /\ pc = "done" /\ extra = 0 /\ Len(out) >= 3 /\ passes >= 3

\* a lexeme of letters and digits only, with a letter and a digit
Mixed(lex) ==
    /\ \A k \in 1..Len(lex) : is_alpha(lex[k]) \/ is_digit(lex[k])
    /\ \E k \in 1..Len(lex) : is_alpha(lex[k])
    /\ \E k \in 1..Len(lex) : is_digit(lex[k])

\* the returned token is not a piece of a longer word: no letter, digit or
\* underscore follows it
WholeWord == pos = Len(text) \/ ~is_id_continue(CharAt(text, pos))

\* the returned token is a whole run of letters and digits: none follows it
WholeRun == pos = Len(text) \/ ~Pred("b36", CharAt(text, pos))

\* the returned token has the float shape over its whole length
FloatShaped == match_float(text, tokStart) = Len(ret.lexeme)

Selected == pc = "ret" /\ path = "selected"

\* the flags and lookback token under which the returned token was chosen
PreExpr == in_expr_context(pre.prev, pre.f)

\* C4 (keyword priority): a token of candidate selection whose lexeme is a
\* keyword has category KEYWORD, whatever the declaration flags and the
\* previous token are.
C4_KeywordPriority ==
    Selected /\ ret.lexeme \in KEYWORDS => ret.type = "RW"

\* the keyword int36, which has the bare base-36 shape, chosen inside an
\* int36 declaration, after the declared name, in expression position
C4_Witness ==
    /\ Selected /\ ret.lexeme = <<"i","n","t","3","6">> /\ ret.type = "RW"
    /\ pre.f.in_decl /\ pre.f.decl_is_int36 /\ ~pre.f.expect_ident
    /\ PreExpr

C5_Case ==
    /\ Selected /\ Mixed(ret.lexeme) /\ ret.lexeme \notin KEYWORDS
    /\ ~pre.f.expect_ident
    /\ pre.prev.type = "OP" /\ pre.prev.lexeme = <<"=">>

\* C5 as claimed: a mixed letter-digit lexeme that is no keyword, chosen
\* while no declared name is expected and the previous token is `=`, is one
\* BASE36-NUMBER token of the full lexeme.
C5_Original == C5_Case => ret.type = "NUM36" /\ WholeRun

\* C5 (base-36 in expression position), amended: such a lexeme is one token
\* of the full lexeme, of category FLOAT when the whole lexeme has the float
\* digits-exponent shape (1e5) and BASE36-NUMBER otherwise.
C5_Base36AfterAssign ==
    C5_Case => /\ WholeRun
               /\ ret.type = IF FloatShaped THEN "FLOAT" ELSE "NUM36"

\* abc123 after `a =`
C5_Witness ==
    /\ C5_Case /\ ret.lexeme = <<"a","b","c","1","2","3">>
    /\ ret.type = "NUM36" /\ Len(rets) = 3

C6_Case ==
    /\ Selected /\ Len(rets) = 1
    /\ Mixed(ret.lexeme) /\ is_alpha(ret.lexeme[1])
    /\ ret.lexeme \notin KEYWORDS

\* C6 as claimed: a mixed letter-digit word that is the first token of a
\* fresh lexer is one IDENTIFIER token of its full length.
C6_Original == C6_Case => ret.type = "ID" /\ WholeWord

\* C6 (mixed lexeme as first token), amended: it is one token of its full
\* length with category BASE36-NUMBER.
C6_FirstMixedToken == C6_Case => ret.type = "NUM36" /\ WholeWord

\* the leading abc123 of `abc123 = 1;`
C6_Witness ==
    /\ C6_Case /\ ret.lexeme = <<"a","b","c","1","2","3">>
    /\ Len(ret.lexeme) = 6 /\ Len(text) > 6

\* the returned token has the decimal, octal or hex shape over its length
IntShaped ==
    Len(ret.lexeme) \in { match_dec_int(text, tokStart),
                          match_oct_int(text, tokStart),
                          match_hex_int(text, tokStart) }

C7_Case ==
    /\ Selected
    /\ pre.f.in_decl /\ pre.f.decl_is_int36 /\ ~pre.f.expect_ident
    /\ PreExpr

\* C7 (declaration-forced base-36): inside an int36 declaration, after the
\* declared name was emitted as IDENTIFIER and in expression position, a
\* literal of decimal, octal or hex shape is BASE36-NUMBER and a literal of
\* float shape is FLOAT.
C7_DeclForcedBase36 ==
    C7_Case => /\ IntShaped => ret.type = "NUM36"
               /\ FloatShaped => ret.type = "FLOAT"

\* the 10 of `int36 x = 10;`
C7_Witness ==
    /\ C7_Case /\ ret.lexeme = <<"1","0">> /\ ret.type = "NUM36"
    /\ pre.prev.lexeme = <<"=">>

\* 1 plus the newlines of text[0:off]
LineAt(off) == 1 + Cardinality({ i \in 1..off : text[i] = "\n" })

\* 1 plus the characters between the last newline of text[0:off] and off
ColAt(off) ==
    LET nls == { i \in 1..off : text[i] = "\n" }
    IN IF nls = {} THEN off + 1
       ELSE 1 + off - (CHOOSE i \in nls : \A j \in nls : j <= i)

\* C8 (line/column): a returned token carries the line and the column of its
\* start offset, counted from the text: newlines before it, and characters
\* since the last of them, a tab being one character.
C8_LineColumn ==
    pc = "ret" => ret.line = LineAt(tokStart) /\ ret.column = ColAt(tokStart)

\* a token on a later line, not in column 1, after a skipped block comment
\* that holds a newline
C8_Witness ==
    /\ pc = "ret" /\ ret.type \notin {"EOF", "ERROR"}
    /\ ret.line > 1 /\ ret.column > 1
    /\ \E k \in 1..Len(spans) :
          /\ Len(spans[k]) >= 4 /\ spans[k][1] = "/" /\ spans[k][2] = "*"
          /\ \E x \in 1..Len(spans[k]) : spans[k][x] = "\n"

\* an unterminated block comment starts at offset off
OpenComment(off) ==
    /\ Slice(text, off, off + 2) = <<"/", "*">>
    /\ \A i \in (off + 2)..(Len(text) - 2) :
          Slice(text, i, i + 2) # <<"*", "/">>

\* the ERROR token of an unterminated block comment
IsCommentError(t) ==
    t.type = "ERROR" /\ Len(t.lexeme) >= 2
    /\ t.lexeme[1] = "/" /\ t.lexeme[2] = "*"

\* C9 (unterminated block comment): the token returned for a `/*` with no
\* later `*/` is an ERROR token from the `/*` to end-of-input with the line
\* and column of the `/*`, the cursor is then at end-of-input; no other path
\* returns a token that starts at such a `/*`; every later call returns EOF
\* and the token is the last of tokenize's list.
C9_UnterminatedComment ==
    /\ pc = "ret" /\ path = "comment_error" =>
          /\ OpenComment(tokStart)
          /\ ret = Token("ERROR", SliceFrom(text, tokStart),
                         LineAt(tokStart), ColAt(tokStart))
          /\ pos = Len(text)
    /\ pc = "ret" /\ path # "comment_error" => ~OpenComment(tokStart)
    /\ \A k \in 1..Len(rets) :
          IsCommentError(rets[k]) =>
              \A j \in (k + 1)..Len(rets) : rets[j].type = "EOF"
    /\ \A k \in 1..Len(out) : IsCommentError(out[k]) => k = Len(out)

\* tokenize has returned a list that ends in the ERROR token of a comment
\* opened after a first token and holding a newline, and a later direct call
\* has returned EOF
C9_Witness ==
    /\ pc = "done" /\ extra >= 1 /\ Len(out) >= 2
    /\ IsCommentError(out[Len(out)])
    /\ \E x \in 1..Len(out[Len(out)].lexeme) : out[Len(out)].lexeme[x] = "\n"
    /\ Len(rets) = Len(out) + 2

\* the character at offset i of a literal opened at offset q is escaped: an
\* odd number of backslashes stands right before it
Escaped(q, i) ==
    LET run == CHOOSE r \in 0..(i - q - 1) :
                  /\ \A d \in 1..r : CharAt(text, i - d) = "\\"
                  /\ (r = i - q - 1 \/ CharAt(text, i - r - 1) # "\\")
    IN run % 2 = 1

\* the offsets after q of the unescaped occurrences of ch
Unescaped(q, ch) ==
    { i \in (q + 1)..(Len(text) - 1) : CharAt(text, i) = ch /\ ~Escaped(q, i) }

\* the least offset of a set of offsets, or len(text) when there is none
FirstOf(S) ==
    IF S = {} THEN Len(text) ELSE CHOOSE i \in S : \A j \in S : i <= j

\* where the scan of the literal opened at q stops when it is unterminated
LiteralStop(q) ==
    IF CharAt(text, q) = "\"" THEN FirstOf(Unescaped(q, "\n")) ELSE Len(text)

\* the literal opened at q has no unescaped closing quote before its stop
Unterminated(q) ==
    FirstOf(Unescaped(q, CharAt(text, q))) >= LiteralStop(q)

\* C10 (unterminated literal): a token that starts at a quote is returned by
\* the literal path; when the literal is unterminated it is one ERROR token
\* from the opening quote up to the stopping newline (excluded) or
\* end-of-input, it holds at least the quote, and the cursor is left at the
\* first character after it.
C10_UnterminatedLiteral ==
    pc = "ret" /\ path \in {"literal", "selected", "no_candidate"} =>
        /\ path = "literal" <=> CharAt(text, tokStart) \in {"'", "\""}
        /\ path = "literal" /\ Unterminated(tokStart) =>
              /\ ret.type = "ERROR"
              /\ ret.lexeme = Slice(text, tokStart, LiteralStop(tokStart))
              /\ Len(ret.lexeme) >= 1
              /\ pos = LiteralStop(tokStart)

\* a string stopped at a newline after an escaped quote
C10_Witness ==
    /\ pc = "ret" /\ path = "literal" /\ ret.type = "ERROR"
    /\ CharAt(text, tokStart) = "\"" /\ Unterminated(tokStart)
    /\ pos < Len(text) /\ CharAt(text, pos) = "\n"
    /\ \E i \in (tokStart + 1)..(pos - 1) :
          CharAt(text, i) = "\"" /\ Escaped(tokStart, i)

\* the character at offset off is no quote and no matcher matches there
NoMatchAt(off) ==
    /\ CharAt(text, off) \notin {"'", "\""}
    /\ match_float(text, off) = 0
    /\ match_base36_bare(text, off) = 0
    /\ match_hex_int(text, off) = 0
    /\ match_oct_int(text, off) = 0
    /\ match_dec_int(text, off) = 0
    /\ match_longest(text, off)[2] = "None"
    /\ match_identifier(text, off) = 0

\* C11 (unrecognized character): a token that starts at a character that is
\* no quote and that no matcher matches is returned by the no-candidate path,
\* and by no other; it is an ERROR token of exactly that character at its
\* line and column, the cursor is one past it, the declaration flags are as
\* they were, and the next call starts at the following character.
C11_UnrecognizedChar ==
    /\ pc = "ret" /\ path \in {"literal", "selected", "no_candidate"} =>
          (path = "no_candidate" <=> NoMatchAt(tokStart))
    /\ pc = "ret" /\ path = "no_candidate" =>
          /\ ret = Token("ERROR", <<CharAt(text, tokStart)>>,
                         LineAt(tokStart), ColAt(tokStart))
          /\ pos = tokStart + 1
          /\ flags = pre.f
    /\ pc \in {"noise", "scan"} /\ path = "no_candidate" =>
          callStart = tokStart + 1

\* the call after the `@` of `int36 @ x;`, inside the declaration: it has
\* skipped the blank and is about to scan the x
C11_Witness ==
    /\ pc = "scan" /\ path = "no_candidate"
    /\ ret.lexeme = <<"@">> /\ prev_token = ret
    /\ in_decl /\ expect_ident /\ decl_is_int36
    /\ callStart = tokStart + 1 /\ pos = callStart + 1

\* the stored operator and delimiter lexemes that are a prefix of the text
\* at offset off
StoredAt(off) ==
    { s \in OPERATORS \cup DELIMITERS : Slice(text, off, off + Len(s)) = s }

\* C12 (operator longest match): at every offset of the text match_longest
\* returns no match exactly when no stored lexeme is a prefix there, and
\* otherwise the longest stored lexeme that is a prefix there with the tag it
\* was added with; an operator or delimiter token is that lexeme with that
\* tag, and a token chosen where the text reads `==` is the one OP token `==`.
C12_OperatorLongestMatch ==
    /\ \A off \in 0..Len(text) :
          LET r == match_longest(text, off)
              S == StoredAt(off)
          IN IF S = {} THEN r = <<<<>>, "None">>
             ELSE /\ r[1] \in S
                  /\ \A s \in S : Len(s) <= Len(r[1])
                  /\ r[2] = IF r[1] \in OPERATORS THEN "OP" ELSE "DL"
    /\ Selected /\ ret.type \in {"OP", "DL"} =>
          /\ ret.lexeme \in StoredAt(tokStart)
          /\ \A s \in StoredAt(tokStart) : Len(s) <= Len(ret.lexeme)
          /\ ret.type = IF ret.lexeme \in OPERATORS THEN "OP" ELSE "DL"
    /\ Selected /\ Slice(text, tokStart, tokStart + 2) = <<"=", "=">> =>
          ret.type = "OP" /\ ret.lexeme = <<"=", "=">>

\* the input `==`: its first token is the OP token `==`, which ends the input
C12_Witness ==
    /\ Selected /\ text = <<"=", "=">> /\ Len(rets) = 1
    /\ ret.type = "OP" /\ ret.lexeme = <<"=", "=">> /\ pos = Len(text)
    /\ StoredAt(0) = { <<"=">>, <<"=", "=">> }

\* a word of letters and digits, begun by a letter, chosen while the
\* declaration context expects a declared name
C13_Case ==
    /\ Selected /\ pre.f.in_decl /\ pre.f.expect_ident
    /\ Mixed(ret.lexeme) /\ is_alpha(ret.lexeme[1])
    /\ ret.lexeme \notin KEYWORDS

\* C13 (declared names are not base-36 literals): while a declared name is
\* expected, right after the keyword int36 or after a `,` of the declaration,
\* a word of mixed letters and digits such as x1 is emitted as IDENTIFIER,
\* never as BASE36-NUMBER.
C13_Original == C13_Case => ret.type = "ID"

IsInt36(t) == t.type = "RW" /\ t.lexeme = <<"i","n","t","3","6">>

IsDelim(t, ch) == t.type = "DL" /\ t.lexeme = <<ch>>

\* a keyword int36 was returned and no `;` delimiter after it
DeclOpen ==
    \E k \in 1..Len(rets) :
        /\ IsInt36(rets[k])
        /\ \A j \in (k + 1)..Len(rets) : ~IsDelim(rets[j], ";")

\* C14 (declaration-context transitions): after a token of candidate
\* selection the flags are: all three set after the keyword int36; all three
\* clear after a `;` delimiter; else, inside a declaration, expecting-name
\* cleared after an IDENTIFIER and set after a `,` delimiter; else as they
\* were.  A token of any other path leaves them as they were, so a
\* declaration is active exactly from a keyword int36 to the next `;`.
C14_DeclTransitions ==
    /\ Selected =>
          flags = IF IsInt36(ret) THEN Flags(TRUE, TRUE, TRUE)
                  ELSE IF IsDelim(ret, ";") THEN Flags(FALSE, FALSE, FALSE)
                  ELSE IF pre.f.in_decl /\ ret.type = "ID"
                       THEN Flags(TRUE, FALSE, pre.f.decl_is_int36)
                  ELSE IF pre.f.in_decl /\ IsDelim(ret, ",")
                       THEN Flags(TRUE, TRUE, pre.f.decl_is_int36)
                  ELSE pre.f
    /\ pc = "ret" /\ path # "selected" => flags = pre.f
    /\ in_decl <=> DeclOpen

\* the `,` of `int36 a = 017, b = z9;`: the name a was emitted as IDENTIFIER
\* and cleared expecting-name, the `,` sets it again
C14_Witness ==
    /\ Selected /\ IsDelim(ret, ",")
    /\ pre.f.in_decl /\ ~pre.f.expect_ident
    /\ in_decl /\ expect_ident /\ decl_is_int36
    /\ \E k \in 1..Len(rets) : rets[k].type = "ID"

\* C20 (declaration-flag consistency): in every state is-base-36-type equals
\* in-declaration and expecting-name implies in-declaration, so outside a
\* declaration expecting-name is clear.
C20_FlagConsistency ==
    /\ decl_is_int36 <=> in_decl
    /\ expect_ident => in_decl

\* tokenize has returned after a declaration was opened, its name emitted as
\* IDENTIFIER, and closed by `;`, and a second declaration was left open
\* after its name
C20_Witness ==
    /\ pc = "done" /\ in_decl /\ decl_is_int36 /\ ~expect_ident
    /\ \E k \in 1..Len(out) :
          /\ IsDelim(out[k], ";")
          /\ \E j \in 1..(k - 1) : out[j].type = "ID"
          /\ \E j \in 1..(k - 1) : IsInt36(out[j])
          /\ \E j \in (k + 1)..Len(out) : IsInt36(out[j])

\* the lengths the span matchers return at offset off
MatcherLengths(off) ==
    { match_whitespace(text, off), match_identifier(text, off),
      match_float(text, off), match_hex_int(text, off),
      match_oct_int(text, off), match_dec_int(text, off),
      match_string_or_char(text, off)[1] }

\* C15 (matcher bound): at every offset from 0 to len(text) every span
\* matcher returns a length between 0 and len(text) - offset: none reports a
\* match that extends past end-of-input, a literal that ends in a backslash
\* included.
C15_Original ==
    \A off \in 0..Len(text) :
        \A L \in MatcherLengths(off) : 0 <= L /\ L <= Len(text) - off

\* the lengths of the numeric-shape matchers at offset off, in the order the
\* candidates are generated: float, bare base-36, hex, octal, decimal
NumericLengths(off) ==
    << match_float(text, off), match_base36_bare(text, off),
       match_hex_int(text, off), match_oct_int(text, off),
       match_dec_int(text, off) >>

\* the pairs of numeric shapes that have the same positive length at off
Collisions(off) ==
    LET found[nl \in {NumericLengths(off)}] ==
            { p \in (1..5) \X (1..5) :
                p[1] < p[2] /\ nl[p[1]] > 0 /\ nl[p[1]] = nl[p[2]] }
    IN found[NumericLengths(off)]

\* C16 as claimed: at no cursor position do two numeric-shape candidates have
\* the same positive length.
C16_Original == Collisions(pos) = {}

\* C16 (numeric shapes and length), amended: at a cursor position the float,
\* hex, octal and decimal shapes never have the same positive length, and the
\* bare base-36 shape never has that of the octal or decimal shape; it can
\* have that of the float shape (1e5) or of the hex shape (0x1F).  When the
\* selected
\* length is such a tie the candidate generated first gives the category:
\* FLOAT for float and base-36, BASE36-NUMBER for base-36 and hex.
C16_NumericCollisions ==
    /\ Collisions(pos) \subseteq {<<1, 2>>, <<2, 3>>}
    /\ Selected /\ <<1, 2>> \in Collisions(tokStart)
          /\ NumericLengths(tokStart)[1] = Len(ret.lexeme) => ret.type = "FLOAT"
    /\ Selected /\ <<2, 3>> \in Collisions(tokStart)
          /\ NumericLengths(tokStart)[2] = Len(ret.lexeme) => ret.type = "NUM36"

\* the input begins with 0x1F: hex and bare base-36 both match 4
\* characters, outside any declaration, and the token is BASE36-NUMBER
C16_Witness ==
    /\ Selected /\ Len(rets) = 1 /\ ~pre.f.in_decl
    /\ ret.lexeme = <<"0","x","1","F">> /\ ret.type = "NUM36"
    /\ Collisions(tokStart) = {<<2, 3>>}

\* a lexeme of mixed letters and digits, no keyword, chosen when the previous
\* token is the delimiter `[` or the delimiter `]`
C17_Case ==
    /\ Selected /\ Mixed(ret.lexeme) /\ ret.lexeme \notin KEYWORDS
    /\ (IsDelim(pre.prev, "[") \/ IsDelim(pre.prev, "]"))

FirstOnLine(d) ==
    \A i \in 0..(d - 1) :
        (\A j \in i..(d - 1) : CharAt(text, j) # "\n")
            => CharAt(text, i) \in {" ", "\t"}

\* a directive starts at offset d
IsDirectiveAt(d) ==
    d < Len(text) /\ CharAt(text, d) = "#" /\ FirstOnLine(d)

\* the first newline after offset d that no backslash stands right before,
\* or len(text)
DirectiveEnd(d) ==
    FirstOf({ k \in (d + 1)..(Len(text) - 1) :
                CharAt(text, k) = "\n" /\ CharAt(text, k - 1) # "\\" })

\* the consumed spans that start at a `#` not first on its line
StrayHashSpans ==
    { k \in 1..Len(spans) :
        /\ SpanEnd(k - 1) < Len(text)
        /\ CharAt(text, SpanEnd(k - 1)) = "#"
        /\ ~FirstOnLine(SpanEnd(k - 1)) }

\* the returned tokens whose lexeme starts with `#`
HashTokens ==
    { k \in 1..Len(rets) : rets[k].lexeme # <<>> /\ rets[k].lexeme[1] = "#" }

\* C18 (preprocessor lines): a span consumed from a `#` that is first on its
\* line runs from the `#` up to the first newline that no backslash stands
\* right before (or to end-of-input), backslash-newline pairs inside it; no
\* token is returned for it and the scan for a token never starts at it.  A
\* `#` that is not first on its line is not skipped: it is consumed alone,
\* as the ERROR token of one character.
C18_PreprocessorLines ==
    /\ \A k \in 1..Len(spans) :
          SpanEnd(k - 1) < Len(text) /\ CharAt(text, SpanEnd(k - 1)) = "#" =>
              spans[k] = IF FirstOnLine(SpanEnd(k - 1))
                         THEN Slice(text, SpanEnd(k - 1),
                                    DirectiveEnd(SpanEnd(k - 1)))
                         ELSE <<"#">>
    /\ Cardinality(StrayHashSpans) = Cardinality(HashTokens)
    /\ pc = "ret" /\ path # "eof" =>
          /\ ~IsDirectiveAt(tokStart)
          /\ CharAt(text, tokStart) = "#" =>
                path = "no_candidate" /\ ret.lexeme = <<"#">>
    /\ pc = "scan" => ~IsDirectiveAt(pos)

\* the input #a\<newline>b<newline><tab>c tokenized: the directive with its
\* continuation line was skipped as one span and the only token is the c of
\* line 3
C18_Witness ==
    /\ pc = "done" /\ Len(out) = 1
    /\ out[1].lexeme = <<"c">> /\ out[1].line = 3
    /\ IsDirectiveAt(0) /\ DirectiveEnd(0) = 5
    /\ spans[1] = <<"#", "a", "\\", "\n", "b">>

\* the categories of the numeric shapes, in the order of NumericLengths
NumericShapeTypes == <<"FLOAT", "NUM36", "NUM16", "NUM8", "NUM10">>

\* the greatest length a matcher of candidate selection returns at off
LongestAt(off) ==
    LET S == { NumericLengths(off)[i] : i \in 1..5 }
             \cup { Len(match_longest(text, off)[1]),
                    match_identifier(text, off) }
    IN CHOOSE m \in S : \A x \in S : x <= m

\* the categories of the numeric shapes whose length at off is L
NumericAt(off, L) ==
    { NumericShapeTypes[i] : i \in { x \in 1..5 : NumericLengths(off)[x] = L } }

\* C19 (longest-match selection): a token of candidate selection has the
\* greatest length any of the float, bare base-36, hex, octal, decimal, trie
\* and identifier matchers returns at its start.  Its category comes from a
\* numeric shape of that length when there is one (a decimal, octal or hex
\* one may then be forced to BASE36-NUMBER by the declaration override), else
\* from the trie match when it has that length, else it is the identifier
\* candidate's; a keyword lexeme is KEYWORD in every case.
C19_LongestMatch ==
    Selected =>
        /\ Len(ret.lexeme) = LongestAt(tokStart)
        /\ pos = tokStart + LongestAt(tokStart)
        /\ IF ret.lexeme \in KEYWORDS THEN ret.type = "RW"
           ELSE IF NumericAt(tokStart, Len(ret.lexeme)) # {}
           THEN \/ ret.type \in NumericAt(tokStart, Len(ret.lexeme))
                \/ /\ ret.type = "NUM36"
                   /\ NumericAt(tokStart, Len(ret.lexeme))
                          \subseteq {"NUM10", "NUM8", "NUM16"}
                   /\ pre.f.in_decl /\ pre.f.decl_is_int36
           ELSE IF Len(match_longest(text, tokStart)[1]) = Len(ret.lexeme)
           THEN ret.type = match_longest(text, tokStart)[2]
           ELSE ret.type = "ID"

\* the a1 of `return a1;`: the bare base-36 and the identifier matcher both
\* return 2, and the numeric category is taken
C19_Witness ==
    /\ Selected /\ ret.lexeme = <<"a","1">> /\ ret.type = "NUM36"
    /\ pre.prev.type = "RW" /\ pre.prev.lexeme = <<"r","e","t","u","r","n">>
    /\ match_identifier(text, tokStart) = 2
    /\ NumericAt(tokStart, 2) = {"NUM36"}

=============================================================================
